---- MODULE Spec2Model ----
\* The environment module of the coffee-shop frontend
\* (frontend/src/environments/environment.ts): one exported constant whose
\* initializer is an object literal.  The model evaluates the literal as the
\* language does, binds the result to the exported name, and lets consumers of
\* the module act on the binding: property reads, a JSON round trip and, in
\* SpecWrite, property assignments and an assignment to the binding itself.
EXTENDS Naturals, Sequences, FiniteSets

\* ---------------------------------------------------------------- strings
\* A string is the sequence of its characters, so that length, prefixes and
\* single characters are what they are in the program.

Lower == {"a","b","c","d","e","f","g","h","i","j","k","l","m","n","o","p","q","r","s","t","u","v","w","x","y","z"}
Upper == {"A","B","C","D","E","F","G","H","I","J","K","L","M","N","O","P","Q","R","S","T","U","V","W","X","Y","Z"}
Digit == {"0","1","2","3","4","5","6","7","8","9"}

\* The property names of the literal.
production == <<"p","r","o","d","u","c","t","i","o","n">>
apiServerUrl == <<"a","p","i","S","e","r","v","e","r","U","r","l">>
auth0 == <<"a","u","t","h","0">>
url == <<"u","r","l">>
audience == <<"a","u","d","i","e","n","c","e">>
clientId == <<"c","l","i","e","n","t","I","d">>
callbackURL == <<"c","a","l","l","b","a","c","k","U","R","L">>

\* ----------------------------------------------------------------- values
\* Runtime values and the nodes of an initializer expression share one record
\* layout: type, b (boolean payload), s (string payload or identifier name),
\* props (the own properties of an object, in insertion order).

Undefined == [type |-> "undefined", b |-> FALSE, s |-> <<>>, props |-> <<>>]
Bool(b) == [type |-> "boolean", b |-> b, s |-> <<>>, props |-> <<>>]
Str(s) == [type |-> "string", b |-> FALSE, s |-> s, props |-> <<>>]
Obj(props) == [type |-> "object", b |-> FALSE, s |-> <<>>, props |-> props]
Ident(name) == [type |-> "ident", b |-> FALSE, s |-> name, props |-> <<>>]
Prop(k, v) == [key |-> k, val |-> v]

\* The shape every variant of the record is written in.
EnvLiteral(prod, api, u, aud, cid, cb) ==
  Obj(<< Prop(production, Bool(prod)),
         Prop(apiServerUrl, Str(api)),
         Prop(auth0, Obj(<< Prop(url, Str(u)),
                            Prop(audience, Str(aud)),
                            Prop(clientId, Str(cid)),
                            Prop(callbackURL, Str(cb)) >>)) >>)

\* Mutants of the literal, each a slip a maintainer could make in it.
environment_emptyAudience ==
  EnvLiteral(FALSE,
    <<"h","t","t","p",":","/","/","1","2","7",".","0",".","0",".","1",":","5","0","0","0">>,
    <<"d","e","v","-","y","a","9","4","p","p","f","c",".","u","s">>,
    <<>>,
    <<"V","n","a","6","p","H","Z","H","Z","9","P","1","d","v","O","e","q","6","P","O","J","2","W","B","8","l","B","s","f","Y","8","G">>,
    <<"h","t","t","p",":","/","/","l","o","c","a","l","h","o","s","t",":","8","1","0","0">>)

environment_badCallback ==
  EnvLiteral(FALSE,
    <<"h","t","t","p",":","/","/","1","2","7",".","0",".","0",".","1",":","5","0","0","0">>,
    <<"d","e","v","-","y","a","9","4","p","p","f","c",".","u","s">>,
    <<"d","r","i","n","k","s">>,
    <<"V","n","a","6","p","H","Z","H","Z","9","P","1","d","v","O","e","q","6","P","O","J","2","W","B","8","l","B","s","f","Y","8","G">>,
    <<"h","t","t","p","/","/","l","o","c","a","l","h","o","s","t",":","8","1","0","0">>)

environment_samePort ==
  EnvLiteral(FALSE,
    <<"h","t","t","p",":","/","/","1","2","7",".","0",".","0",".","1",":","8","1","0","0">>,
    <<"d","e","v","-","y","a","9","4","p","p","f","c",".","u","s">>,
    <<"d","r","i","n","k","s">>,
    <<"V","n","a","6","p","H","Z","H","Z","9","P","1","d","v","O","e","q","6","P","O","J","2","W","B","8","l","B","s","f","Y","8","G">>,
    <<"h","t","t","p",":","/","/","l","o","c","a","l","h","o","s","t",":","8","1","0","0">>)

environment_fullDomain ==
  EnvLiteral(FALSE,
    <<"h","t","t","p",":","/","/","1","2","7",".","0",".","0",".","1",":","5","0","0","0">>,
    <<"h","t","t","p","s",":","/","/","d","e","v","-","y","a","9","4","p","p","f","c",".","u","s",".","a","u","t","h","0",".","c","o","m">>,
    <<"d","r","i","n","k","s">>,
    <<"V","n","a","6","p","H","Z","H","Z","9","P","1","d","v","O","e","q","6","P","O","J","2","W","B","8","l","B","s","f","Y","8","G">>,
    <<"h","t","t","p",":","/","/","l","o","c","a","l","h","o","s","t",":","8","1","0","0">>)

\* clientId left to the global `undefined` (a value that was never filled in).
environment_undefinedClientId ==
  Obj(<< Prop(production, Bool(FALSE)),
         Prop(apiServerUrl, Str(<<"h","t","t","p",":","/","/","1","2","7",".","0",".","0",".","1",":","5","0","0","0">>)),
         Prop(auth0, Obj(<< Prop(url, Str(<<"d","e","v","-","y","a","9","4","p","p","f","c",".","u","s">>)),
                            Prop(audience, Str(<<"d","r","i","n","k","s">>)),
                            Prop(clientId, Ident(<<"u","n","d","e","f","i","n","e","d">>)),
                            Prop(callbackURL, Str(<<"h","t","t","p",":","/","/","l","o","c","a","l","h","o","s","t",":","8","1","0","0">>)) >>)) >>)

\* audience nested one level too shallow (outside auth0).
environment_audienceAtTop ==
  Obj(<< Prop(production, Bool(FALSE)),
         Prop(apiServerUrl, Str(<<"h","t","t","p",":","/","/","1","2","7",".","0",".","0",".","1",":","5","0","0","0">>)),
         Prop(audience, Str(<<"d","r","i","n","k","s">>)),
         Prop(auth0, Obj(<< Prop(url, Str(<<"d","e","v","-","y","a","9","4","p","p","f","c",".","u","s">>)),
                            Prop(clientId, Str(<<"V","n","a","6","p","H","Z","H","Z","9","P","1","d","v","O","e","q","6","P","O","J","2","W","B","8","l","B","s","f","Y","8","G">>)),
                            Prop(callbackURL, Str(<<"h","t","t","p",":","/","/","l","o","c","a","l","h","o","s","t",":","8","1","0","0">>)) >>)) >>)

\* production written as the string "false" instead of the boolean.
environment_productionAsString ==
  Obj(<< Prop(production, Str(<<"f","a","l","s","e">>)),
         Prop(apiServerUrl, Str(<<"h","t","t","p",":","/","/","1","2","7",".","0",".","0",".","1",":","5","0","0","0">>)),
         Prop(auth0, Obj(<< Prop(url, Str(<<"d","e","v","-","y","a","9","4","p","p","f","c",".","u","s">>)),
                            Prop(audience, Str(<<"d","r","i","n","k","s">>)),
                            Prop(clientId, Str(<<"V","n","a","6","p","H","Z","H","Z","9","P","1","d","v","O","e","q","6","P","O","J","2","W","B","8","l","B","s","f","Y","8","G">>)),
                            Prop(callbackURL, Str(<<"h","t","t","p",":","/","/","l","o","c","a","l","h","o","s","t",":","8","1","0","0">>)) >>)) >>)

\* apiServerUrl read from a name that is not declared anywhere.
environment_unboundName ==
  Obj(<< Prop(production, Bool(FALSE)),
         Prop(apiServerUrl, Ident(<<"A","P","I">>)),
         Prop(auth0, Obj(<< Prop(url, Str(<<"d","e","v","-","y","a","9","4","p","p","f","c",".","u","s">>)),
                            Prop(audience, Str(<<"d","r","i","n","k","s">>)),
                            Prop(clientId, Str(<<"V","n","a","6","p","H","Z","H","Z","9","P","1","d","v","O","e","q","6","P","O","J","2","W","B","8","l","B","s","f","Y","8","G">>)),
                            Prop(callbackURL, Str(<<"h","t","t","p",":","/","/","l","o","c","a","l","h","o","s","t",":","8","1","0","0">>)) >>)) >>)

\* The initializer of `export const environment` (environment.ts, lines 5-14).
environment ==
  EnvLiteral(FALSE,
    <<"h","t","t","p",":","/","/","1","2","7",".","0",".","0",".","1",":","5","0","0","0">>,
    <<"d","e","v","-","y","a","9","4","p","p","f","c",".","u","s">>,
    <<"d","r","i","n","k","s">>,
    <<"V","n","a","6","p","H","Z","H","Z","9","P","1","d","v","O","e","q","6","P","O","J","2","W","B","8","l","B","s","f","Y","8","G">>,
    <<"h","t","t","p",":","/","/","l","o","c","a","l","h","o","s","t",":","8","1","0","0">>)

\* ------------------------------------------------------------- evaluation
\* Names the initializer could refer to without declaring them.
GlobalScope == [n \in { <<"u","n","d","e","f","i","n","e","d">> } |-> Undefined]

Completed(v) == [threw |-> FALSE, value |-> v]
Thrown == [threw |-> TRUE, value |-> Undefined]

\* Evaluation of an initializer expression: a literal yields its value, an
\* identifier its binding (a ReferenceError when there is none), an object
\* literal a fresh object with its properties evaluated in source order.
RECURSIVE Eval(_)
Eval(n) ==
  CASE n.type = "boolean" -> Completed(Bool(n.b))
    [] n.type = "string" -> Completed(Str(n.s))
    [] n.type = "ident" ->
         IF n.s \in DOMAIN GlobalScope THEN Completed(GlobalScope[n.s]) ELSE Thrown
    [] n.type = "object" ->
         LET rs == [i \in 1..Len(n.props) |-> Eval(n.props[i].val)]
         IN IF \E i \in 1..Len(n.props) : rs[i].threw
            THEN Thrown
            ELSE Completed(Obj([i \in 1..Len(n.props) |->
                                  Prop(n.props[i].key, rs[i].value)]))
    [] OTHER -> Thrown

\* -------------------------------------------------------- property access
HasProp(o, k) == o.type = "object" /\ \E i \in 1..Len(o.props) : o.props[i].key = k

\* o[k]: the property's value, undefined when o has no such own property.
GetProp(o, k) ==
  IF HasProp(o, k)
  THEN o.props[CHOOSE i \in 1..Len(o.props) : o.props[i].key = k].val
  ELSE Undefined

\* o[k] = v on an ordinary (extensible, unfrozen) object.
SetProp(o, k, v) ==
  IF HasProp(o, k)
  THEN Obj([i \in 1..Len(o.props) |->
              IF o.props[i].key = k THEN Prop(k, v) ELSE o.props[i]])
  ELSE Obj(Append(o.props, Prop(k, v)))

\* The member expressions consumers write: environment.a and environment.a.b.
Get(o, path) ==
  IF Len(path) = 1 THEN GetProp(o, path[1])
  ELSE GetProp(GetProp(o, path[1]), path[2])

Set(o, path, v) ==
  IF Len(path) = 1 THEN SetProp(o, path[1], v)
  ELSE SetProp(o, path[1], SetProp(GetProp(o, path[1]), path[2], v))

LeafPaths == { <<production>>, <<apiServerUrl>>, <<auth0, url>>, <<auth0, audience>>,
               <<auth0, clientId>>, <<auth0, callbackURL>> }

\* ------------------------------------------------------------------ JSON
\* JSON.stringify and JSON.parse as the language defines them, on the values
\* above and with no indentation or replacer/reviver argument.

DQ == "\""
BS == "\\"
NL == "\n"

\* QuoteJSONString: the characters between the quotes, escaped one by one.
RECURSIVE EscapeFrom(_, _)
EscapeFrom(s, i) ==
  IF i > Len(s) THEN <<>>
  ELSE (CASE s[i] = DQ -> <<BS, DQ>>
          [] s[i] = BS -> <<BS, BS>>
          [] s[i] = NL -> <<BS, "n">>
          [] OTHER -> <<s[i]>>) \o EscapeFrom(s, i + 1)

QuoteJSONString(s) == <<DQ>> \o EscapeFrom(s, 1) \o <<DQ>>

\* SerializeJSONProperty: the text of a value; the empty text stands for the
\* result `undefined` (no JSON text is empty), which makes the enclosing
\* object skip the property.
RECURSIVE SerializeJSONProperty(_), SerializeJSONMembers(_, _, _)
SerializeJSONProperty(v) ==
  CASE v.type = "boolean" ->
         IF v.b THEN <<"t","r","u","e">> ELSE <<"f","a","l","s","e">>
    [] v.type = "string" -> QuoteJSONString(v.s)
    [] v.type = "object" -> <<"{">> \o SerializeJSONMembers(v.props, 1, TRUE) \o <<"}">>
    [] OTHER -> <<>>

SerializeJSONMembers(props, i, first) ==
  IF i > Len(props) THEN <<>>
  ELSE LET text == SerializeJSONProperty(props[i].val)
       IN IF text = <<>>
          THEN SerializeJSONMembers(props, i + 1, first)
          ELSE (IF first THEN <<>> ELSE <<",">>)
               \o QuoteJSONString(props[i].key) \o <<":">> \o text
               \o SerializeJSONMembers(props, i + 1, FALSE)

JSONstringify(v) == SerializeJSONProperty(v)

Parsed(v, next) == [ok |-> TRUE, value |-> v, next |-> next]
SyntaxError == [ok |-> FALSE, value |-> Undefined, next |-> 0]

StartsWith(t, i, w) ==
  /\ i + Len(w) - 1 <= Len(t)
  /\ \A j \in 1..Len(w) : t[i + j - 1] = w[j]

\* The parser: ParseString starts after the opening quote, ParseMembers at the
\* quote opening a member's name.
RECURSIVE ParseString(_, _, _), ParseValue(_, _), ParseMembers(_, _, _)
ParseString(t, i, acc) ==
  IF i > Len(t) THEN SyntaxError
  ELSE IF t[i] = DQ THEN Parsed(Str(acc), i + 1)
  ELSE IF t[i] = NL THEN SyntaxError
  ELSE IF t[i] = BS
       THEN IF i + 1 > Len(t) THEN SyntaxError
            ELSE IF t[i + 1] \in {DQ, BS, "/"}
                 THEN ParseString(t, i + 2, Append(acc, t[i + 1]))
            ELSE IF t[i + 1] = "n" THEN ParseString(t, i + 2, Append(acc, NL))
            ELSE SyntaxError
  ELSE ParseString(t, i + 1, Append(acc, t[i]))

ParseValue(t, i) ==
  IF i > Len(t) THEN SyntaxError
  ELSE IF t[i] = DQ THEN ParseString(t, i + 1, <<>>)
  ELSE IF t[i] = "{"
       THEN IF i + 1 <= Len(t) /\ t[i + 1] = "}"
            THEN Parsed(Obj(<<>>), i + 2)
            ELSE ParseMembers(t, i + 1, Obj(<<>>))
  ELSE IF StartsWith(t, i, <<"t","r","u","e">>) THEN Parsed(Bool(TRUE), i + 4)
  ELSE IF StartsWith(t, i, <<"f","a","l","s","e">>) THEN Parsed(Bool(FALSE), i + 5)
  ELSE SyntaxError

ParseMembers(t, i, o) ==
  IF i > Len(t) \/ t[i] # DQ THEN SyntaxError
  ELSE LET k == ParseString(t, i + 1, <<>>)
       IN IF ~k.ok \/ k.next > Len(t) \/ t[k.next] # ":" THEN SyntaxError
          ELSE LET v == ParseValue(t, k.next + 1)
               IN IF ~v.ok \/ v.next > Len(t) THEN SyntaxError
                  ELSE IF t[v.next] = ","
                       THEN ParseMembers(t, v.next + 1, SetProp(o, k.value.s, v.value))
                  ELSE IF t[v.next] = "}"
                       THEN Parsed(SetProp(o, k.value.s, v.value), v.next + 1)
                  ELSE SyntaxError

\* JSON.parse: one value spanning the whole text, else a SyntaxError.
JSONparse(t) ==
  LET r == ParseValue(t, 1)
  IN IF r.ok /\ r.next = Len(t) + 1 THEN r ELSE SyntaxError

\* ------------------------------------------------------------ the program
MaxWrites == 1

\* Strings a production variant may hold, and strings a consumer may assign.
ProdStrings == { <<>>, <<"c","o","f","f","e","e",DQ,BS>> }
WriteStrings == { <<>>, <<"x",DQ,NL>> }

Configurations == {"development", "production"}

\* The sibling production variant that the build substitutes for this module:
\* the same literal shape, other values.
ProdVariants ==
  { EnvLiteral(b, a, d, d, c, c) : b \in BOOLEAN, a \in ProdStrings,
                                   d \in ProdStrings, c \in ProdStrings }

VARIABLES
  pc,             \* "unbuilt", "built", "loaded" or "failed"
  configuration,  \* the build configuration chosen, "none" before the build
  moduleSource,   \* the initializer the built module evaluates
  env,            \* the value bound to the exported name `environment`
  lastRead,       \* what the last property read of a consumer returned
  copy,           \* the result of the last JSON round trip of a consumer
  thrown,         \* the last exception a consumer or the loader saw
  writes          \* property assignments made so far

vars == <<pc, configuration, moduleSource, env, lastRead, copy, thrown, writes>>

Init ==
  /\ pc = "unbuilt"
  /\ configuration = "none"
  /\ moduleSource = Undefined
  /\ env = Undefined
  /\ lastRead = Undefined
  /\ copy = Undefined
  /\ thrown = "none"
  /\ writes = 0

\* The build picks the module text: this file, or its production variant.
Build(c) ==
  /\ pc = "unbuilt"
  /\ pc' = "built"
  /\ configuration' = c
  /\ IF c = "development"
     THEN moduleSource' = environment
     ELSE \E v \in ProdVariants : moduleSource' = v
  /\ UNCHANGED <<env, lastRead, copy, thrown, writes>>

\* Module evaluation: `export const environment = <initializer>`.
LoadModule ==
  /\ pc = "built"
  /\ LET r == Eval(moduleSource)
     IN IF r.threw
        THEN /\ pc' = "failed"
             /\ thrown' = "ReferenceError"
             /\ env' = env
        ELSE /\ pc' = "loaded"
             /\ thrown' = thrown
             /\ env' = r.value
  /\ UNCHANGED <<configuration, moduleSource, lastRead, copy, writes>>

\* A consumer reads environment.<path>.
Read(path) ==
  /\ pc = "loaded"
  /\ lastRead' = Get(env, path)
  /\ UNCHANGED <<pc, configuration, moduleSource, env, copy, thrown, writes>>

\* A consumer evaluates JSON.parse(JSON.stringify(environment)).
RoundTrip ==
  /\ pc = "loaded"
  /\ LET r == JSONparse(JSONstringify(env))
     IN IF r.ok
        THEN copy' = r.value /\ thrown' = thrown
        ELSE copy' = copy /\ thrown' = "SyntaxError"
  /\ UNCHANGED <<pc, configuration, moduleSource, env, lastRead, writes>>

\* The values the declared type of a property admits: the literal's
\* properties are inferred as boolean and string, not as literal types.
Assignable(old) ==
  CASE old.type = "boolean" -> { Bool(b) : b \in BOOLEAN }
    [] old.type = "string" -> { Str(s) : s \in WriteStrings }
    [] OTHER -> {}

\* A consumer assigns environment.<path> = v.  The object is an ordinary one
\* (no Object.freeze, no readonly, no `as const`), so the assignment stores.
Write(path, v) ==
  /\ pc = "loaded"
  /\ writes < MaxWrites
  /\ v \in Assignable(Get(env, path))
  /\ env' = Set(env, path, v)
  /\ writes' = writes + 1
  /\ UNCHANGED <<pc, configuration, moduleSource, lastRead, copy, thrown>>

\* A consumer assigns to the imported name itself: `const` and the import
\* binding are read-only, so the assignment throws and stores nothing.
Rebind ==
  /\ pc = "loaded"
  /\ thrown' = "TypeError"
  /\ UNCHANGED <<pc, configuration, moduleSource, env, lastRead, copy, writes>>

Next ==
  \/ \E c \in Configurations : Build(c)
  \/ LoadModule
  \/ \E p \in LeafPaths : Read(p)
  \/ RoundTrip

Spec == Init /\ [][Next]_vars

NextWrite ==
  \/ Next
  \/ \E p \in LeafPaths : \E v \in Assignable(Get(env, p)) : Write(p, v)
  \/ Rebind

SpecWrite == Init /\ [][NextWrite]_vars

\* ------------------------------------------------------------- properties
\* The module of this file has been built and evaluated.
Dev == configuration = "development" /\ pc = "loaded"

Keys(o) == { o.props[i].key : i \in 1..Len(o.props) }

\* The shape of a value: its type and, for an object, the shape of each member.
RECURSIVE Shape(_)
Shape(v) ==
  [type |-> v.type,
   members |-> IF v.type = "object"
               THEN { <<v.props[i].key, Shape(v.props[i].val)>> : i \in 1..Len(v.props) }
               ELSE {}]

StringPaths == LeafPaths \ { <<production>> }

\* URL syntax as the claims state it: scheme "://" host [":" port].
IndexOf(s, w) ==
  IF \E i \in 1..Len(s) : StartsWith(s, i, w)
  THEN CHOOSE i \in 1..Len(s) :
         StartsWith(s, i, w) /\ \A j \in 1..(i - 1) : ~StartsWith(s, j, w)
  ELSE 0

Scheme(s) ==
  LET i == IndexOf(s, <<":","/","/">>) IN IF i = 0 THEN <<>> ELSE SubSeq(s, 1, i - 1)
Authority(s) ==
  LET i == IndexOf(s, <<":","/","/">>) IN IF i = 0 THEN <<>> ELSE SubSeq(s, i + 3, Len(s))
Host(s) ==
  LET a == Authority(s)
      i == IndexOf(a, <<":">>)
  IN IF i = 0 THEN a ELSE SubSeq(a, 1, i - 1)
HasPort(s) == IndexOf(Authority(s), <<":">>) # 0
Port(s) ==
  LET a == Authority(s)
      i == IndexOf(a, <<":">>)
  IN IF i = 0 THEN <<>> ELSE SubSeq(a, i + 1, Len(a))

AllIn(s, S) == \A i \in 1..Len(s) : s[i] \in S

IsValidUrl(s) ==
  /\ IndexOf(s, <<":","/","/">>) > 1
  /\ Scheme(s)[1] \in Lower \cup Upper
  /\ AllIn(Scheme(s), Lower \cup Upper \cup Digit \cup {"+", "-", "."})
  /\ Len(Host(s)) > 0
  /\ AllIn(Host(s), Lower \cup Upper \cup Digit \cup {"-", "."})
  /\ HasPort(s) => (Len(Port(s)) > 0 /\ AllIn(Port(s), Digit))

\* C1: once the module is loaded, whatever consumers read or try to write,
\* every field of the exported record holds the value it was constructed with.
C1_Immutable == Dev => env = Eval(environment).value

\* C2: the record has exactly the top-level keys production, apiServerUrl and
\* auth0, auth0 has exactly url, audience, clientId and callbackURL, production
\* is a boolean and every other leaf is a string.
C2_ExactShape ==
  Dev =>
    /\ env.type = "object"
    /\ Len(env.props) = 3
    /\ Keys(env) = {production, apiServerUrl, auth0}
    /\ GetProp(env, auth0).type = "object"
    /\ Len(GetProp(env, auth0).props) = 4
    /\ Keys(GetProp(env, auth0)) = {url, audience, clientId, callbackURL}
    /\ Get(env, <<production>>).type = "boolean"
    /\ \A p \in StringPaths : Get(env, p).type = "string"

C2_Witness == Dev /\ lastRead = Get(env, <<auth0, clientId>>) /\ lastRead.type = "string"

\* C3: apiServerUrl, auth0.url, auth0.audience, auth0.clientId and
\* auth0.callbackURL are each present and of length greater than zero.
C3_NonEmpty ==
  Dev => \A p \in StringPaths :
           /\ HasProp(IF Len(p) = 1 THEN env ELSE GetProp(env, p[1]), p[Len(p)])
           /\ Get(env, p).type = "string"
           /\ Len(Get(env, p).s) > 0

C3_Witness == Dev /\ lastRead = Get(env, <<auth0, audience>>) /\ Len(lastRead.s) > 0

\* C4: apiServerUrl and auth0.callbackURL are syntactically valid URLs: a
\* scheme, "://", a non-empty host and an optional ":port" of digits only.
C4_ValidUrls ==
  Dev => /\ IsValidUrl(Get(env, <<apiServerUrl>>).s)
         /\ IsValidUrl(Get(env, <<auth0, callbackURL>>).s)

C4_Witness ==
  Dev /\ lastRead = Get(env, <<auth0, callbackURL>>) /\ HasPort(lastRead.s)

\* C5: serializing the record to JSON and parsing the text back succeeds and
\* yields a record identical to the original, at both nesting levels.
C5_RoundTrip ==
  pc = "loaded" => /\ thrown # "SyntaxError"
                   /\ copy # Undefined => copy = env

C5_Witness == Dev /\ copy = env /\ copy.type = "object" /\ Len(copy.props) = 3

C7_LoadTotal ==
  [][(configuration = "development" /\ pc = "built" /\ pc' # "built") =>
       /\ pc' = "loaded"
       /\ env'.type = "object"
       /\ thrown' = "none"
       /\ UNCHANGED <<configuration, moduleSource, lastRead, copy, writes>>]_vars

C7_Witness ==
  Dev /\ env.type = "object" /\ thrown = "none" /\ lastRead = Undefined /\ copy = Undefined

\* C8: the record is the development configuration: production is false, both
\* URLs use plain http with a loopback host and an explicit port, and the
\* ports differ (5000 for the API server, 8100 for the application).
C8_DevConsistent ==
  Dev =>
    LET api == Get(env, <<apiServerUrl>>).s
        cb == Get(env, <<auth0, callbackURL>>).s
    IN /\ Get(env, <<production>>) = Bool(FALSE)
       /\ Scheme(api) = <<"h","t","t","p">>
       /\ Scheme(cb) = <<"h","t","t","p">>
       /\ Host(api) = <<"1","2","7",".","0",".","0",".","1">>
       /\ Host(cb) = <<"l","o","c","a","l","h","o","s","t">>
       /\ Port(api) = <<"5","0","0","0">>
       /\ Port(cb) = <<"8","1","0","0">>
       /\ Port(api) # Port(cb)

C8_Witness == Dev /\ lastRead = Bool(FALSE) /\ lastRead = Get(env, <<production>>)

\* C9: auth0.url is a bare domain prefix: it holds no "://", no "/" and no
\* port separator, unlike apiServerUrl and auth0.callbackURL.
C9_BareDomain ==
  Dev =>
    LET u == Get(env, <<auth0, url>>).s
    IN /\ IndexOf(u, <<":","/","/">>) = 0
       /\ \A i \in 1..Len(u) : u[i] \notin {"/", ":"}
       /\ IndexOf(Get(env, <<apiServerUrl>>).s, <<":","/","/">>) # 0
       /\ IndexOf(Get(env, <<auth0, callbackURL>>).s, <<":","/","/">>) # 0

C9_Witness ==
  Dev /\ lastRead = Get(env, <<auth0, url>>) /\ Len(lastRead.s) > 0 /\ ~IsValidUrl(lastRead.s)
====
